---- MODULE Spec2Model ----
(***************************************************************************)
(* Procedural generation of the ReactRPG codex: CodexQuerySet.get_random,  *)
(* Codex.new_weapon, Codex.new_enemy (codex/models.py) and                 *)
(* rarity_recursive, modifier_multiplier, stat_modifier                    *)
(* (codex/functions.py).                                                   *)
(*                                                                         *)
(* A multiplier is a Python float m/100 with m an integer; the model keeps *)
(* the integer m (hundredths) and computes math.ceil(stat * (m / 100)) as  *)
(* IEEE-754 double arithmetic computes it (FloatCeil).                     *)
(***************************************************************************)
EXTENDS Integers, Sequences, FiniteSets, TLC

\* ------------------------------------------------------------------ bounds
MaxWeaponLevel == 2     \* largest user level passed to new_weapon
MaxEnemyLevel == 3      \* largest user level passed to new_enemy
MaxResolveLevel == 6    \* largest n passed to a direct rarity_recursive call
NegLevels == 2          \* direct rarity_recursive calls start at n = -NegLevels
MaxMulLevel == 4        \* largest level passed to a direct modifier_multiplier call
MaxMulRarity == 5       \* largest rarity passed to a direct modifier_multiplier call

\* ------------------------------------------------------- catalog (database)
StatOrder == <<"base_hp", "base_attack", "base_speed", "base_defense">>

StatNames == {StatOrder[i] : i \in 1..Len(StatOrder)}

\* Rows of the Codex table in pk order.  min_level is nullable: the empty set
\* is NULL, {v} is the value v.
Catalog ==
  << [type |-> "Hero",   paid |-> FALSE, min_level |-> {},
      base_hp |-> 5,  base_attack |-> 5, base_speed |-> 5, base_defense |-> 5],
     [type |-> "Weapon", paid |-> FALSE, min_level |-> {1},
      base_hp |-> 25, base_attack |-> 1, base_speed |-> 1, base_defense |-> 2],
     [type |-> "Weapon", paid |-> TRUE,  min_level |-> {2},
      base_hp |-> 3,  base_attack |-> 2, base_speed |-> 1, base_defense |-> 1],
     [type |-> "Weapon", paid |-> FALSE, min_level |-> {3},
      base_hp |-> 2,  base_attack |-> 1, base_speed |-> 1, base_defense |-> 1],
     [type |-> "Enemy",  paid |-> FALSE, min_level |-> {2},
      base_hp |-> 5,  base_attack |-> 5, base_speed |-> 5, base_defense |-> 5],
     [type |-> "Enemy",  paid |-> TRUE,  min_level |-> {1},
      base_hp |-> 2,  base_attack |-> 1, base_speed |-> 1, base_defense |-> 3] >>

BaseStats(pk) == [s \in StatNames |-> Catalog[pk][s]]

\* ------------------------------------------------------------ random source
\* random.randint(a, b): both ends inclusive; empty when b < a (ValueError)
RandInt(a, b) == a..b

\* random.randrange(a, b): upper end exclusive; empty when b <= a (ValueError)
RandRange(a, b) == a..(b - 1)

\* ------------------------------------------------------------- get_random
AllowedContentLeak(paid) == {FALSE, TRUE}

\* allowed_content = {False}; allowed_content.add(paid)
AllowedContent(paid) == {FALSE} \cup {paid}

\* type = codex_type, paid__in = allowed_content, min_level__lte = level
\* (a NULL min_level never satisfies __lte)
Matches(row, codex_type, paid, level) ==
  /\ row.type = codex_type
  /\ row.paid \in AllowedContent(paid)
  /\ \E v \in row.min_level : v <= level

\* the filtered queryset, as the sequence of the pks of its rows
Query(codex_type, paid, level) ==
  SelectSeq([i \in 1..Len(Catalog) |-> i],
            LAMBDA pk : Matches(Catalog[pk], codex_type, paid, level))

\* last = query.count() - 1
Last(query) == Len(query) - 1

\* ------------------------------------------------------- rarity_recursive
SuccessrollInverted(n) == 100 + ((n - 1) * 20)

\* successroll = 100 - ((n - 1) * 20)
Successroll(n) == 100 - ((n - 1) * 20)

RarityTerminalNoCap(sr, tt) == sr >= 100

\* if successroll >= 100 or t == 5: return t
RarityTerminal(sr, tt) == sr >= 100 \/ tt = 5

RarityNextLevelStuck(nn) == nn

\* the level argument of the recursive call, n - 1
RarityNextLevel(nn) == nn - 1

\* rarity_list and Python's list indexing: -len..-1 count from the end,
\* anything outside -len..len-1 raises IndexError
RarityList == <<"Common", "Uncommon", "Rare", "Epic", "Mythic">>

IndexInRange(list, i) == i >= -Len(list) /\ i < Len(list)

ListIndex(list, i) == IF i >= 0 THEN list[i + 1] ELSE list[Len(list) + i + 1]

\* ---------------------------------------------------- modifier_multiplier
\* Python round() of the rational num/den: nearest integer, ties to even
RoundHalfEven(num, den) ==
  LET q == num \div den
      r == num % den
  IN  IF 2 * r < den THEN q
      ELSE IF 2 * r > den THEN q + 1
      ELSE IF q % 2 = 0 THEN q ELSE q + 1

ModiMinOffByOne(level) == RoundHalfEven((5 + (level - 2)) * 100, 5)

\* modi_min = round((1 + ((level - 1) / 5)) * 100)
ModiMin(level) == RoundHalfEven((5 + (level - 1)) * 100, 5)

\* modi_max = round((1 + ((level - 1) / 5) + (rarity / 5)) * 100)
ModiMax(level, rarity) == RoundHalfEven((5 + (level - 1) + rarity) * 100, 5)

ModifierMultiplierInclusive(level, rarity) ==
  RandInt(ModiMin(level), ModiMax(level, rarity))

\* the values m that randrange(modi_min, modi_max) can return; the function
\* returns m / 100
ModifierMultiplier(level, rarity) ==
  RandRange(ModiMin(level), ModiMax(level, rarity))

\* ---------------------------------------------------------- stat_modifier
RECURSIVE Pow2(_)
Pow2(e) == IF e <= 0 THEN 1 ELSE 2 * Pow2(e - 1)

RECURSIVE Log2Floor(_)
Log2Floor(x) == IF x < 2 THEN 0 ELSE 1 + Log2Floor(x \div 2)

RECURSIVE Pow2Mod100(_)
Pow2Mod100(k) == IF k = 0 THEN 1 ELSE (2 * Pow2Mod100(k - 1)) % 100

\* floor(log2(m / 100)), the binary exponent of the double m / 100, m >= 1
RECURSIVE Binade(_)
Binade(m) == IF m >= 100 THEN Log2Floor(m \div 100) ELSE Binade(2 * m) - 1

\* 100 * 2^(52 - Binade(m)) * (double(m / 100) - m / 100): the signed
\* rounding error of the division m / 100, in units of 1/100 ulp
DivError(m) ==
  LET s == (m * Pow2Mod100(52 - Binade(m))) % 100
  IN  IF s > 50 THEN 100 - s ELSE -s

\* math.ceil(stat * (m / 100)) in double arithmetic, stat >= 0, m >= 0.
\* When stat * m / 100 is not an integer the rounding errors are too small
\* to matter.  When it is an integer N, the double product exceeds N (and
\* the ceiling is N + 1) iff the error stat * e is more than half an ulp of N.
FloatCeil(stat, m) ==
  IF stat = 0 \/ m = 0 THEN 0
  ELSE IF (stat * m) % 100 # 0 THEN ((stat * m) \div 100) + 1
  ELSE LET N == (stat * m) \div 100
           b == Binade(m)
           lhs == stat * DivError(m) * Pow2(1 + b)
           rhs == 100 * Pow2(Log2Floor(N)) * Pow2(-(1 + b))
       IN  IF lhs > rhs THEN N + 1 ELSE N

\* the values stat_modifier(stat, level, rarity) can return:
\* math.ceil(stat * modifier_multiplier(level, rarity))
StatModifier(stat, level, rarity) ==
  {FloatCeil(stat, m) : m \in ModifierMultiplier(level, rarity)}

\* -------------------------------------------------------------------- state
VARIABLES
  pc,           \* position of the running call: idle, level, rarity, label,
                \* scale, return, done (returned) or raised (exception)
  entry,        \* the function called: new_weapon, new_enemy,
                \* rarity_recursive or modifier_multiplier
  arg_paid,     \* argument paid
  arg_level,    \* argument level (n of a direct rarity_recursive call)
  arg_rarity,   \* argument rarity of a direct modifier_multiplier call
  tmpl,         \* pk of the row returned by get_random, 0 before
  stats,        \* the instance's base_hp, base_attack, base_speed, base_defense
  level,        \* instance.level, 0 while unset
  rarity,       \* weapon.rarity, 0 while unset
  rarity_text,  \* weapon.rarity_text, "" while unset
  n,            \* rarity_recursive: n of the current frame
  t,            \* rarity_recursive: t of the current frame
  successroll,  \* rarity_recursive: successroll of the last frame run
  outcome,      \* rarity_recursive: outcome of the last roll, 0 when none
  rolls,        \* number of randint(1, 100) draws made
  level_draws,  \* number of randint(1, level) draws made
  pass,         \* completed iterations of the scaling loop
  si,           \* index in StatOrder of the next stat of this iteration
  calls,        \* per stat, number of stat_modifier calls made on it
  invoked,      \* the (level, rarity) argument pairs stat_modifier was called with
  ret,          \* value returned by a direct function call, 0 when none
  error         \* exception raised, "None" when none

vars == <<pc, entry, arg_paid, arg_level, arg_rarity, tmpl, stats, level,
          rarity, rarity_text, n, t, successroll, outcome, rolls,
          level_draws, pass, si, calls, invoked, ret, error>>

callVars == <<entry, arg_paid, arg_level, arg_rarity>>

instVars == <<tmpl, stats, level, rarity, rarity_text>>

rarityVars == <<n, t, successroll, outcome, rolls>>

loopVars == <<pass, si, calls, invoked>>

NoStats == [s \in StatNames |-> 0]

Init ==
  /\ pc = "idle"
  /\ entry = "none"
  /\ arg_paid = FALSE
  /\ arg_level = 0
  /\ arg_rarity = 0
  /\ tmpl = 0
  /\ stats = NoStats
  /\ level = 0
  /\ rarity = 0
  /\ rarity_text = ""
  /\ n = 0
  /\ t = 0
  /\ successroll = 0
  /\ outcome = 0
  /\ rolls = 0
  /\ level_draws = 0
  /\ pass = 0
  /\ si = 1
  /\ calls = NoStats
  /\ invoked = {}
  /\ ret = 0
  /\ error = "None"

\* ------------------------------------------------------------- get_random
\* query = self.filter(...); last = query.count() - 1;
\* index = randint(0, last); return query[index]
\* randint raises ValueError on the empty range 0..-1.
GetRandom(codex_type, paid, lvl) ==
  LET query == Query(codex_type, paid, lvl)
      range == RandInt(0, Last(query))
  IN  IF range = {}
        THEN /\ error' = "ValueError"
             /\ pc' = "raised"
             /\ UNCHANGED instVars
        ELSE \E index \in range :
               /\ tmpl' = query[index + 1]
               /\ stats' = BaseStats(query[index + 1])
               /\ pc' = "level"
               /\ UNCHANGED <<level, rarity, rarity_text, error>>

\* Codex.new_weapon(paid, level), up to the return of get_random
CallNewWeapon ==
  /\ pc = "idle"
  /\ \E paid \in BOOLEAN, lvl \in 1..MaxWeaponLevel :
       /\ entry' = "new_weapon"
       /\ arg_paid' = paid
       /\ arg_level' = lvl
       /\ GetRandom("Weapon", paid, lvl)
  /\ UNCHANGED <<arg_rarity, rarityVars, level_draws, loopVars, ret>>

\* Codex.new_enemy(paid, level), up to the return of get_random
CallNewEnemy ==
  /\ pc = "idle"
  /\ \E paid \in BOOLEAN, lvl \in 1..MaxEnemyLevel :
       /\ entry' = "new_enemy"
       /\ arg_paid' = paid
       /\ arg_level' = lvl
       /\ GetRandom("Enemy", paid, lvl)
  /\ UNCHANGED <<arg_rarity, rarityVars, level_draws, loopVars, ret>>

\* ------------------------------------------------------------- new_weapon
LevelChoicesFromZero(lvl) == RandInt(0, lvl)

\* randint(1, level)
LevelChoices(lvl) == RandInt(1, lvl)

\* if level > 1: weapon.level = randint(1, level);
\*               weapon.rarity = rarity_recursive(weapon.level)   (call entered)
\* else: weapon.level = 1; weapon.rarity = 1
WeaponLevel ==
  /\ pc = "level"
  /\ entry = "new_weapon"
  /\ IF arg_level > 1
       THEN \E l \in LevelChoices(arg_level) :
              /\ level' = l
              /\ level_draws' = level_draws + 1
              /\ n' = l
              /\ t' = 1
              /\ pc' = "rarity"
              /\ UNCHANGED rarity
       ELSE /\ level' = 1
            /\ rarity' = 1
            /\ pc' = "label"
            /\ UNCHANGED <<level_draws, n, t>>
  /\ UNCHANGED <<callVars, tmpl, stats, rarity_text, successroll, outcome,
                 rolls, loopVars, ret, error>>

\* rarity_recursive(n) called directly
CallRarity ==
  /\ pc = "idle"
  /\ \E lvl \in (-NegLevels)..MaxResolveLevel :
       /\ entry' = "rarity_recursive"
       /\ arg_level' = lvl
       /\ n' = lvl
       /\ t' = 1
  /\ pc' = "rarity"
  /\ UNCHANGED <<arg_paid, arg_rarity, instVars, successroll, outcome, rolls,
                 level_draws, loopVars, ret, error>>

\* the outermost rarity_recursive call returns val to its caller
RarityDeliver(val) ==
  IF entry = "new_weapon"
    THEN /\ rarity' = val
         /\ pc' = "label"
         /\ UNCHANGED ret
    ELSE /\ ret' = val
         /\ pc' = "done"
         /\ UNCHANGED rarity

\* a frame of rarity_recursive that returns t without rolling:
\* successroll >= 100 or t == 5
RarityReturn ==
  /\ pc = "rarity"
  /\ RarityTerminal(Successroll(n), t)
  /\ successroll' = Successroll(n)
  /\ RarityDeliver(t)
  /\ UNCHANGED <<callVars, tmpl, stats, level, rarity_text, n, t, outcome,
                 rolls, level_draws, loopVars, error>>

\* a frame of rarity_recursive that rolls: outcome = randint(1, 100);
\* outcome >= successroll recurses with (n - 1, t + 1), otherwise returns t
RarityRoll ==
  /\ pc = "rarity"
  /\ ~RarityTerminal(Successroll(n), t)
  /\ successroll' = Successroll(n)
  /\ rolls' = rolls + 1
  /\ \E o \in RandInt(1, 100) :
       /\ outcome' = o
       /\ IF o >= Successroll(n)
            THEN /\ n' = RarityNextLevel(n)
                 /\ t' = t + 1
                 /\ UNCHANGED <<pc, rarity, ret>>
            ELSE /\ RarityDeliver(t)
                 /\ UNCHANGED <<n, t>>
  /\ UNCHANGED <<callVars, tmpl, stats, level, rarity_text, level_draws,
                 loopVars, error>>

WeaponPassesOnce(r) == 1

\* number of iterations of new_weapon's loop: range(weapon.rarity)
WeaponPasses(r) == r

\* weapon.rarity_text = rarity_list[weapon.rarity - 1], then the loop is
\* entered; the locals of the returned rarity_recursive frames are gone
WeaponLabel ==
  /\ pc = "label"
  /\ IF IndexInRange(RarityList, rarity - 1)
       THEN /\ rarity_text' = ListIndex(RarityList, rarity - 1)
            /\ pc' = IF WeaponPasses(rarity) > 0 THEN "scale" ELSE "return"
            /\ UNCHANGED error
       ELSE /\ error' = "IndexError"
            /\ pc' = "raised"
            /\ UNCHANGED rarity_text
  /\ n' = 0
  /\ t' = 0
  /\ successroll' = 0
  /\ outcome' = 0
  /\ UNCHANGED <<callVars, tmpl, stats, level, rarity, rolls, level_draws,
                 loopVars, ret>>

\* one statement of a scaling loop body:
\* x.<stat> = stat_modifier(x.<stat>, lvl, rar) for the stat at position si;
\* after the fourth stat the iteration is complete, and after the last of
\* `passes` iterations the loop is left
ScaleStat(lvl, rar, passes) ==
  LET s == StatOrder[si]
      results == StatModifier(stats[s], lvl, rar)
  IN  /\ invoked' = invoked \cup {<<lvl, rar>>}
      /\ calls' = [calls EXCEPT ![s] = @ + 1]
      /\ IF results = {}
           THEN /\ error' = "ValueError"
                /\ pc' = "raised"
                /\ UNCHANGED <<stats, pass, si>>
           ELSE /\ \E v \in results : stats' = [stats EXCEPT ![s] = v]
                /\ si' = IF si = Len(StatOrder) THEN 1 ELSE si + 1
                /\ pass' = IF si = Len(StatOrder) THEN pass + 1 ELSE pass
                /\ pc' = IF si = Len(StatOrder) /\ pass + 1 >= passes
                           THEN "return" ELSE "scale"
                /\ UNCHANGED error

\* for __ in range(weapon.rarity): the four stat_modifier calls with
\* (weapon.level, weapon.rarity)
WeaponScale ==
  /\ pc = "scale"
  /\ entry = "new_weapon"
  /\ ScaleStat(level, rarity, WeaponPasses(rarity))
  /\ UNCHANGED <<callVars, tmpl, level, rarity, rarity_text, rarityVars,
                 level_draws, ret>>

\* -------------------------------------------------------------- new_enemy
EnemyPassesOneMore(lvl) == lvl

\* number of iterations of new_enemy's loop: range(enemy.level - 1)
EnemyPasses(lvl) == lvl - 1

\* if level > 1: enemy.level = randint(1, level), then the loop
\* else: enemy.level = 1
EnemyLevel ==
  /\ pc = "level"
  /\ entry = "new_enemy"
  /\ IF arg_level > 1
       THEN \E l \in LevelChoices(arg_level) :
              /\ level' = l
              /\ level_draws' = level_draws + 1
              /\ pc' = IF EnemyPasses(l) > 0 THEN "scale" ELSE "return"
       ELSE /\ level' = 1
            /\ pc' = "return"
            /\ UNCHANGED level_draws
  /\ UNCHANGED <<callVars, tmpl, stats, rarity, rarity_text, rarityVars,
                 loopVars, ret, error>>

\* the rarity argument stat_modifier gets when it is omitted (rarity=1)
DefaultRarity == 1

\* for __ in range(enemy.level - 1): the four stat_modifier calls with
\* (enemy.level), rarity defaulted
EnemyScale ==
  /\ pc = "scale"
  /\ entry = "new_enemy"
  /\ ScaleStat(level, DefaultRarity, EnemyPasses(level))
  /\ UNCHANGED <<callVars, tmpl, level, rarity, rarity_text, rarityVars,
                 level_draws, ret>>

\* return weapon / return enemy
ReturnInstance ==
  /\ pc = "return"
  /\ pc' = "done"
  /\ UNCHANGED <<callVars, instVars, rarityVars, level_draws, loopVars, ret,
                 error>>

\* ---------------------------------------------------- modifier_multiplier
\* modifier_multiplier(level, rarity) called directly; ret holds m, the
\* returned multiplier being m / 100.  randrange raises ValueError on an
\* empty range.
CallModifierMultiplier ==
  /\ pc = "idle"
  /\ \E lvl \in 1..MaxMulLevel, rar \in 0..MaxMulRarity :
       /\ entry' = "modifier_multiplier"
       /\ arg_level' = lvl
       /\ arg_rarity' = rar
       /\ IF ModifierMultiplier(lvl, rar) = {}
            THEN /\ error' = "ValueError"
                 /\ pc' = "raised"
                 /\ UNCHANGED ret
            ELSE /\ \E m \in ModifierMultiplier(lvl, rar) : ret' = m
                 /\ pc' = "done"
                 /\ UNCHANGED error
  /\ UNCHANGED <<arg_paid, instVars, rarityVars, level_draws, loopVars>>

Next ==
  \/ CallNewWeapon
  \/ CallNewEnemy
  \/ CallRarity
  \/ CallModifierMultiplier
  \/ WeaponLevel
  \/ RarityReturn
  \/ RarityRoll
  \/ WeaponLabel
  \/ WeaponScale
  \/ EnemyLevel
  \/ EnemyScale
  \/ ReturnInstance

Spec == Init /\ [][Next]_vars

\* a rarity_recursive frame that was entered is run: the interpreter keeps
\* executing the statements of a call in progress
FairSpec == Spec /\ WF_vars(RarityReturn) /\ WF_vars(RarityRoll)

TypeOK ==
  /\ pc \in {"idle", "level", "rarity", "label", "scale", "return", "done", "raised"}
  /\ error \in {"None", "ValueError", "IndexError"}
  /\ tmpl \in 0..Len(Catalog)
  /\ si \in 1..Len(StatOrder)

\* ----------------------------------------------------------------- claims
Generators == {"new_weapon", "new_enemy"}

\* C1 as stated: an instance of resolved level 1 is never scaled:
\* stat_modifier is never called with (1, 1) and the returned stats are
\* the template's base stats.
C1_NoScalingAtLevelOne ==
  (entry \in Generators /\ level = 1) =>
     /\ <<1, 1>> \notin invoked
     /\ (pc = "done" => stats = BaseStats(tmpl))

\* C1 amended: an enemy of resolved level 1 is never scaled (no
\* stat_modifier call, stats equal the base stats); a weapon of resolved
\* level 1 has rarity 1 and gets exactly one pass of stat_modifier(stat, 1, 1)
\* on each stat, drawn from the non-empty range 100..119.
C1_LevelOneScaling ==
  /\ (entry = "new_enemy" /\ level = 1) =>
        /\ invoked = {}
        /\ calls = NoStats
        /\ stats = BaseStats(tmpl)
  /\ (entry = "new_weapon" /\ level = 1 /\ pc = "done") =>
        /\ rarity = 1
        /\ invoked = {<<1, 1>>}
        /\ \A s \in StatNames :
             /\ calls[s] = 1
             /\ stats[s] \in {FloatCeil(Catalog[tmpl][s], m) : m \in 100..119}

C1_Witness ==
  /\ entry = "new_enemy"
  /\ arg_level > 1
  /\ level = 1
  /\ pc = "done"

\* C2 as stated: when the filter matches no row, get_random (and so
\* new_weapon / new_enemy) ends in a NotFound error.
C2_EmptyFilterIsNotFound ==
  (entry \in Generators /\ pc # "idle"
     /\ Query(IF entry = "new_weapon" THEN "Weapon" ELSE "Enemy",
              arg_paid, arg_level) = <<>>)
  => (pc = "raised" /\ error = "NotFound")

\* C3: the instance's level is in 1..requested level; with requested
\* level 1 it is 1 and no level draw is made.
C3_LevelWithinRequest ==
  (entry \in Generators /\ pc \in {"rarity", "label", "scale", "return", "done"}) =>
     /\ level \in 1..arg_level
     /\ level_draws <= 1
     /\ (arg_level = 1 => level = 1 /\ level_draws = 0)

C3_Witness ==
  /\ entry = "new_enemy"
  /\ pc = "done"
  /\ arg_level > 1
  /\ level = arg_level
  /\ level_draws = 1

\* C4: for level >= 1 rarity_recursive returns r with 1 <= r <= 5 and
\* r <= level, rarity_recursive(1) = 1 without a roll; in new_weapon the
\* index rarity - 1 into the five labels is in range.
C4_RarityInRange ==
  /\ (entry = "rarity_recursive" /\ arg_level >= 1 /\ pc = "done") =>
        /\ ret \in 1..5
        /\ ret <= arg_level
        /\ (arg_level = 1 => ret = 1 /\ rolls = 0)
  /\ (entry = "new_weapon" /\ pc \in {"label", "scale", "return", "done"}) =>
        /\ rarity \in 1..5
        /\ rarity <= level
        /\ rarity - 1 \in 0..(Len(RarityList) - 1)
        /\ (pc # "label" => rarity_text = RarityList[rarity])
  /\ error # "IndexError"

C4_Witness ==
  /\ entry = "rarity_recursive"
  /\ arg_level > 5
  /\ pc = "done"
  /\ ret = 5

\* C5: the row get_random returns has the requested type, a min_level not
\* above the requested level, and a paid flag in {False, paid}.
C5_TemplateSatisfiesFilter ==
  (entry \in Generators /\ tmpl # 0) =>
     /\ Catalog[tmpl].type = (IF entry = "new_weapon" THEN "Weapon" ELSE "Enemy")
     /\ Catalog[tmpl].min_level # {}
     /\ \A v \in Catalog[tmpl].min_level : v <= arg_level
     /\ (Catalog[tmpl].paid => arg_paid)

C5_Witness ==
  /\ entry = "new_weapon"
  /\ ~arg_paid
  /\ arg_level = 2
  /\ tmpl # 0
  /\ pc = "done"

C7_MultiplierRange ==
  (entry = "modifier_multiplier" /\ arg_level >= 1 /\ arg_rarity >= 1) =>
     /\ pc = "done"
     /\ error = "None"
     /\ ret >= 100 + 20 * (arg_level - 1)
     /\ ret <= 100 + 20 * (arg_level - 1) + 20 * arg_rarity - 1

C7_Witness ==
  /\ entry = "modifier_multiplier"
  /\ pc = "done"
  /\ arg_level > 1
  /\ arg_rarity > 1
  /\ ret = 100 + 20 * (arg_level - 1) + 20 * arg_rarity - 1

\* C8: with positive base stats every stat of a generated instance stays a
\* positive integer not below its base value, and no stat_modifier pass
\* lowers a stat.
C8_StatsNeverDecrease ==
  /\ []((entry \in Generators /\ tmpl # 0) =>
          \A s \in StatNames : stats[s] > 0 /\ stats[s] >= Catalog[tmpl][s])
  /\ [][(\A s \in StatNames : stats'[s] >= stats[s])]_vars

C8_Witness ==
  /\ entry = "new_enemy"
  /\ pc = "done"
  /\ \A s \in StatNames : stats[s] > Catalog[tmpl][s]

\* C9: for level >= 1 rarity_recursive ends after at most level rolls; a
\* successful roll lowers n and raises t by one, each roll's threshold is 20
\* above the previous one, and the climb ends at the first failed roll, at
\* threshold 100 or at rarity 5.
C9_RarityTerminates ==
  /\ [](entry \in {"rarity_recursive", "new_weapon"} =>
          LET n0 == IF entry = "new_weapon" THEN level ELSE arg_level
          IN  n0 >= 1 => rolls <= n0)
  /\ [][(LET n0 == IF entry = "new_weapon" THEN level ELSE arg_level
            delivered == IF entry = "new_weapon" THEN rarity' ELSE ret'
        IN  /\ rolls' # rolls =>
                 /\ rolls' = rolls + 1
                 /\ outcome' \in 1..100
                 /\ successroll' = 100 - 20 * (n0 - 1) + 20 * rolls
                 /\ successroll' < 100
                 /\ t < 5
                 /\ IF outcome' >= successroll'
                      THEN n' = n - 1 /\ t' = t + 1 /\ pc' = "rarity"
                      ELSE pc' # "rarity" /\ delivered = t
            /\ (pc = "rarity" /\ rolls' = rolls) =>
                 /\ pc' # "rarity"
                 /\ successroll' >= 100 \/ t = 5
                 /\ delivered = t)]_vars
  /\ (pc = "rarity") ~> (pc # "rarity")

C9_Witness ==
  /\ entry = "rarity_recursive"
  /\ pc = "done"
  /\ rolls = 4
  /\ ret = 5

\* C10 as stated: called with level <= 0, rarity_recursive does not return
\* at once (no guard stops it).
C10_NoImmediateReturn ==
  (entry = "rarity_recursive" /\ arg_level <= 0) => ~(pc = "done" /\ rolls = 0)

\* C10 amended: called with level <= 0, rarity_recursive returns at once: the
\* threshold is at least 120, the guard successroll >= 100 ends the first
\* frame, no roll is drawn, the level is never lowered, the result is 1.
C10_NonPositiveLevelReturnsAtOnce ==
  (entry = "rarity_recursive" /\ arg_level <= 0) =>
     /\ rolls = 0
     /\ n = arg_level
     /\ pc \in {"rarity", "done"}
     /\ pc = "done" => (ret = 1 /\ successroll >= 120)

C10_Witness ==
  /\ entry = "rarity_recursive"
  /\ arg_level < 0
  /\ pc = "done"
  /\ ret = 1

====
